---- MODULE Spec2Model ----
(***************************************************************************)
(* Model of the browser-side lazy image loader (class LazyImageLoader):   *)
(* capability probe, discovery / registration, the IntersectionObserver   *)
(* callback, loadImage with WebP fallback and setImageSrc.                 *)
(*                                                                         *)
(* URLs are sequences of tokens (directory tokens, a file stem, an         *)
(* extension token), so that String.includes / String.replace are         *)
(* computed on the path and not assumed.                                   *)
(***************************************************************************)
EXTENDS Integers, Sequences, FiniteSets, TLC

\* ------------------------------------------------------------------ bounds
\* number of <img> elements the page may hold (document order = index)
NumImages == 2
\* cap on loadImage invocations per element explored by the model
MaxLoads == 2
\* longest directory prefix and longest file name (in pieces) of the paths
\* the path rewrite is applied to
MaxDirs == 2
MaxName == 3
\* most entries of one source directory
MaxFiles == 2

Elements == 1..NumImages

\* ------------------------------------------------------------------ paths
None == <<>>

\* the src values the page markup may give an <img>: a PNG thumbnail the
\* converter covers, a raster without a WebP twin, a vector image
MarkupSrcs ==
    { <<"All-DrawingsCompressed/", "a", ".png">>,
      <<"photos/", "a", ".jpg">>,
      <<"icons/", "a", ".svg">> }

\* String.prototype.includes, at token granularity
Includes(path, tok) == \E i \in DOMAIN path : path[i] = tok

\* index of the first occurrence of tok in path (0 when absent)
IndexOf(path, tok) ==
    IF Includes(path, tok)
    THEN CHOOSE i \in DOMAIN path :
            /\ path[i] = tok
            /\ \A j \in 1..(i - 1) : path[j] # tok
    ELSE 0

\* String.prototype.replace(string, string): the first occurrence only
ReplaceFirst(path, tok, new) ==
    IF Includes(path, tok)
    THEN [i \in DOMAIN path |-> IF i = IndexOf(path, tok) THEN new ELSE path[i]]
    ELSE path

\* convertToWebPPath(pngPath)
convertToWebPPath(pngPath) ==
    IF Includes(pngPath, "All-DrawingsCompressed/")
    THEN ReplaceFirst(ReplaceFirst(pngPath, "All-DrawingsCompressed/", "All-DrawingsWebP/"),
                      ".png", ".webp")
    ELSE IF Includes(pngPath, "All-Drawings/")
    THEN ReplaceFirst(ReplaceFirst(pngPath, "All-Drawings/", "All-DrawingsWebPFull/"),
                      ".png", ".webp")
    ELSE ReplaceFirst(pngPath, ".png", ".webp")

\* the data URL canvas.toDataURL() returns in createPlaceholder
Placeholder == <<"data:image/png;base64">>

\* ------------------------------------------------------------------ state
VARIABLES
    markup,        \* markup[e]: the src the page gave element e (never changes)
    inDoc,         \* inDoc[e]: e is attached to the document
    img,           \* img[e]: [src, processed, originalSrc, webpSrc, classList]
    supportsWebP,  \* this.supportsWebP
    initPc,        \* position of constructor / async init
    observer,      \* this.observer: "null" or "set"
    observed,      \* targets the IntersectionObserver observes
    fetches,       \* fetches[e]: the off-document Image loads issued for e
    loadCalls,     \* loadCalls[e]: number of loadImage(e) invocations
    observeCalls,  \* observeCalls[e]: number of observer.observe(e) calls
    placeholders,  \* placeholders[e]: number of placeholder installs on e
    stylesAdded,   \* addLoadingStyles has run
    faults,        \* causes of the uncaught exceptions raised so far
    rescanned,     \* a discovery call has met an already processed element
    multiBatch,    \* a batch has carried more than one intersecting entry
    intersected,   \* targets some batch has reported as intersecting
    loadedObserved,\* targets still observed when loadImage started on them
    probe,         \* "pending", or the event and height the probe image gave
    rewrite,       \* the path-rewrite run: [in, out]
    conv           \* the batch converter's run (convert-to-webp.js)

\* the variables of the page and the loader
loaderVars == <<markup, inDoc, img, supportsWebP, initPc, observer, observed,
                fetches, loadCalls, observeCalls, placeholders, stylesAdded,
                faults, rescanned, multiBatch, intersected, loadedObserved,
                probe>>

\* the variables of the path-rewrite run and of the converter, which the
\* page never touches
toolVars == <<rewrite, conv>>

vars == <<loaderVars, toolVars>>

\* the probe image has not settled yet
ProbePending == [ev |-> "pending", h |-> 0]

\* no path-rewrite run and no converter run is going on
RewriteIdle == [pc |-> "idle"]
ConvIdle == [pc |-> "idle"]

\* an <img> as the markup delivers it: no data-* attributes, no lazy classes
FreshImg(s) ==
    [src |-> s, processed |-> FALSE, originalSrc |-> None, webpSrc |-> None,
     classList |-> {}]

Init ==
    /\ markup \in [Elements -> MarkupSrcs]
    /\ inDoc \in [Elements -> BOOLEAN]
    /\ img = [e \in Elements |-> FreshImg(markup[e])]
    /\ supportsWebP = FALSE
    /\ initPc = "unconstructed"
    /\ observer = "null"
    /\ observed = {}
    /\ fetches = [e \in Elements |-> <<>>]
    /\ loadCalls = [e \in Elements |-> 0]
    /\ observeCalls = [e \in Elements |-> 0]
    /\ placeholders = [e \in Elements |-> 0]
    /\ stylesAdded = FALSE
    /\ faults = {}
    /\ rescanned = FALSE
    /\ multiBatch = FALSE
    /\ intersected = {}
    /\ loadedObserved = {}
    /\ probe = ProbePending
    /\ rewrite = RewriteIdle
    /\ conv = ConvIdle


\* ------------------------------------------------------------ discovery
\* The mutable part of the page a discovery call works on:
\*   [img, observed, observeCalls, placeholders, rescanned, threw]
\* threw: "none", or the cause of the exception that is propagating (it ends
\* the forEach and the caller): "placeholder" (createPlaceholder failed) or
\* "observer" (this.observer is still null at this.observer.observe(img)).

\* mutant of Eligible: the data-processed mark is not consulted
Eligible_NoProcessedCheck(d, e) ==
    inDoc[e] /\ ~Includes(d.img[e].src, ".svg")

\* mutant of Eligible: vector images are not skipped
Eligible_NoSvgCheck(d, e) ==
    inDoc[e] /\ ~d.img[e].processed

\* processImages' selector and skip test: img[src] in the document, not yet
\* processed, src does not include '.svg'
Eligible(d, e) ==
    /\ inDoc[e]
    /\ ~d.img[e].processed
    /\ ~Includes(d.img[e].src, ".svg")

\* mutant of WebpSrcFor: the probe's result is not consulted
WebpSrcFor_IgnoresSupport(sw, im) ==
    IF Includes(im.src, ".png") THEN convertToWebPPath(im.src) ELSE im.webpSrc

\* prepareImageForLazyLoading: the data-webp-src decision
WebpSrcFor(sw, im) ==
    IF sw /\ Includes(im.src, ".png")
    THEN convertToWebPPath(im.src)
    ELSE im.webpSrc

\* prepareImageForLazyLoading(img) under supportsWebP = sw and this.observer =
\* obs; phFails: createPlaceholder throws for this call (no 2D context)
prepareImageForLazyLoading(d, e, sw, obs, phFails) ==
    LET im0 == d.img[e]
        im1 == [im0 EXCEPT !.originalSrc = im0.src,
                           !.webpSrc = WebpSrcFor(sw, im0)]
        im2 == [im1 EXCEPT !.src = Placeholder,
                           !.classList = @ \cup {"lazy-loading"},
                           !.processed = TRUE]
    IN  IF phFails
        THEN [d EXCEPT !.img[e] = im1, !.threw = "placeholder"]
        ELSE IF obs = "null"
        THEN [d EXCEPT !.img[e] = im2,
                       !.placeholders[e] = @ + 1,
                       !.threw = "observer"]
        ELSE [d EXCEPT !.img[e] = im2,
                       !.placeholders[e] = @ + 1,
                       !.observed = @ \cup {e},
                       !.observeCalls[e] = @ + 1]

\* processImages: images.forEach in document order, from element i on;
\* F: the elements whose placeholder generation fails during this call
RECURSIVE processImagesFrom(_, _, _, _, _)
processImagesFrom(d, i, sw, obs, F) ==
    IF i > NumImages \/ d.threw # "none"
    THEN d
    ELSE processImagesFrom(
            IF Eligible(d, i)
            THEN prepareImageForLazyLoading(d, i, sw, obs, i \in F)
            ELSE IF inDoc[i] /\ d.img[i].processed
            THEN [d EXCEPT !.rescanned = TRUE]
            ELSE d,
            i + 1, sw, obs, F)

processImages(sw, obs, F) ==
    processImagesFrom(
        [img |-> img, observed |-> observed, observeCalls |-> observeCalls,
         placeholders |-> placeholders, rescanned |-> rescanned,
         threw |-> "none"],
        1, sw, obs, F)

\* --------------------------------------------------------------- loader
\* The part of the state a load sequence works on:
\*   [img, fetches, loadCalls, observed, loadedObserved]

Fetch(kind, url, fallback) ==
    [kind |-> kind, url |-> url, fallback |-> fallback, status |-> "pending"]

\* setImageSrc(img, src): the synchronous part (class added, pre-load started)
setImageSrc(l, e, s) ==
    [l EXCEPT !.img[e].classList = @ \cup {"lazy-loading"},
              !.fetches[e] = Append(@, Fetch("swap", s, None))]

\* loadImage(img) up to its first await (or to its end when WebP is not tried)
loadImage(l, e, sw) ==
    LET webpSrc == l.img[e].webpSrc
        originalSrc == l.img[e].originalSrc
        l1 == [l EXCEPT !.loadCalls[e] = @ + 1,
                        !.loadedObserved = IF e \in l.observed
                                           THEN @ \cup {e} ELSE @]
    IN  IF sw /\ webpSrc # None
        THEN [l1 EXCEPT !.fetches[e] = Append(@, Fetch("test", webpSrc, originalSrc))]
        ELSE setImageSrc(l1, e, originalSrc)

\* mutant of ObserverEntry: the target is left under observation
ObserverEntry_NoUnobserve(l, e, sw) == loadImage(l, e, sw)

\* one intersecting entry of the IntersectionObserver callback
ObserverEntry(l, e, sw) ==
    LET l1 == loadImage(l, e, sw)
    IN  [l1 EXCEPT !.observed = @ \ {e}]

\* mutant of HandleEntries: entry.isIntersecting is not consulted
RECURSIVE HandleEntries_IgnoresIsIntersecting(_, _, _, _)
HandleEntries_IgnoresIsIntersecting(l, i, I, sw) ==
    IF i > NumImages
    THEN l
    ELSE HandleEntries_IgnoresIsIntersecting(
            IF i \in l.observed THEN ObserverEntry(l, i, sw) ELSE l, i + 1, I, sw)

\* entries.forEach over the batch; I: the targets whose entry isIntersecting
RECURSIVE HandleEntries(_, _, _, _)
HandleEntries(l, i, I, sw) ==
    IF i > NumImages
    THEN l
    ELSE HandleEntries(IF i \in I THEN ObserverEntry(l, i, sw) ELSE l, i + 1, I, sw)

\* mutant of AfterTryLoad: a failed WebP test marks the element as failed
\* instead of falling back to the original
AfterTryLoad_NoFallback(l, e, f, ok) ==
    IF ok
    THEN setImageSrc(l, e, f.url)
    ELSE [l EXCEPT !.img[e].classList = (@ \ {"lazy-loading"}) \cup {"lazy-error"}]

\* mutant of AfterTryLoad: the original is swapped in although the WebP loaded
AfterTryLoad_SwapsOriginal(l, e, f, ok) == setImageSrc(l, e, f.fallback)

\* mutant of AfterTryLoad: a failed WebP test is tried again
AfterTryLoad_RetriesPreferred(l, e, f, ok) ==
    IF ok
    THEN setImageSrc(l, e, f.url)
    ELSE [l EXCEPT !.fetches[e] = Append(@, Fetch("test", f.url, f.fallback))]

\* loadImage after `await tryLoadImage(webpSrc)`: success -> swap to the WebP,
\* rejection -> catch -> fall through to the original
AfterTryLoad(l, e, f, ok) ==
    IF ok THEN setImageSrc(l, e, f.url) ELSE setImageSrc(l, e, f.fallback)

\* newImg.onload / newImg.onerror of setImageSrc
SwapOnload(im, s) ==
    [im EXCEPT !.src = s,
               !.classList = (@ \ {"lazy-loading"}) \cup {"lazy-loaded"}]

\* mutant of SwapOnerror: the loading class is not removed
SwapOnerror_KeepsLoading(im, s) ==
    [im EXCEPT !.classList = @ \cup {"lazy-error"}]

\* mutant of SwapOnerror: the failed source is shown all the same
SwapOnerror_ShowsSource(im, s) ==
    [im EXCEPT !.src = s,
               !.classList = (@ \ {"lazy-loading"}) \cup {"lazy-error"}]

SwapOnerror(im, s) ==
    [im EXCEPT !.classList = (@ \ {"lazy-loading"}) \cup {"lazy-error"}]

\* checkWebPSupport: onload and onerror both resolve(webP.height === 2)
ProbeHeights == {0, 1, 2}

\* mutant of probeResult: any load event counts as support
probeResult_AnyLoad(ev, h) == (ev = "load")

probeResult(ev, h) == (h = 2)

\* -------------------------------------------------------------- actions
\* The ways createPlaceholder can fail during one discovery call. The first
\* failure ends the call, so one failing element per call spans every outcome.
PlaceholderFailures ==
    {{}} \cup {{e} : e \in {x \in Elements : inDoc[x] /\ ~img[x].processed
                                             /\ ~Includes(img[x].src, ".svg")}}

\* DOMContentLoaded (or the script running on a ready document):
\* new LazyImageLoader() runs init() up to `await this.checkWebPSupport()`
Construct ==
    /\ initPc = "unconstructed"
    /\ initPc' = "probing"
    /\ supportsWebP' = FALSE
    /\ observer' = "null"
    /\ UNCHANGED <<markup, inDoc, img, observed, fetches, loadCalls,
                   observeCalls, placeholders, stylesAdded, faults,
                   rescanned, multiBatch, intersected, loadedObserved, probe>>
    /\ UNCHANGED toolVars

\* the probe image settles; init resumes: supportsWebP is stored,
\* setupIntersectionObserver, processImages, addLoadingStyles
InitResume ==
    /\ initPc = "probing"
    /\ \E ev \in {"load", "error"}, h \in ProbeHeights, F \in PlaceholderFailures :
        /\ ev = "error" => h = 0
        /\ LET sw == probeResult(ev, h)
               d == processImages(sw, "set", F)
           IN  /\ supportsWebP' = sw
               /\ probe' = [ev |-> ev, h |-> h]
               /\ observer' = "set"
               /\ img' = d.img
               /\ observed' = d.observed
               /\ observeCalls' = d.observeCalls
               /\ placeholders' = d.placeholders
               /\ rescanned' = d.rescanned
               /\ stylesAdded' = (d.threw = "none")
               /\ initPc' = IF d.threw = "none" THEN "done" ELSE "rejected"
               /\ faults' = IF d.threw = "none" THEN faults
                             ELSE faults \cup {d.threw}
    /\ UNCHANGED <<markup, inDoc, fetches, loadCalls, multiBatch, intersected,
                   loadedObserved>>
    /\ UNCHANGED toolVars

\* window.lazyLoader.processNewImages(), callable once the loader exists
ProcessNewImages ==
    /\ initPc # "unconstructed"
    /\ \E F \in PlaceholderFailures :
        LET d == processImages(supportsWebP, observer, F)
        IN  /\ img' = d.img
            /\ observed' = d.observed
            /\ observeCalls' = d.observeCalls
            /\ placeholders' = d.placeholders
            /\ rescanned' = d.rescanned
            /\ faults' = IF d.threw = "none" THEN faults
                          ELSE faults \cup {d.threw}
    /\ UNCHANGED <<markup, inDoc, supportsWebP, initPc, observer, fetches,
                   loadCalls, stylesAdded, multiBatch, intersected,
                   loadedObserved, probe>>
    /\ UNCHANGED toolVars

\* the page inserts an <img> dynamically
InsertImage ==
    \E e \in Elements :
        /\ ~inDoc[e]
        /\ inDoc' = [inDoc EXCEPT ![e] = TRUE]
        /\ UNCHANGED <<markup, img, supportsWebP, initPc, observer, observed,
                       fetches, loadCalls, observeCalls, placeholders,
                       stylesAdded, faults, rescanned, multiBatch,
                       intersected, loadedObserved, probe>>
        /\ UNCHANGED toolVars

\* the IntersectionObserver delivers a batch of entries for observed targets
ObserverCallback ==
    /\ observer = "set"
    /\ \E batch \in (SUBSET observed) \ {{}} :
       \E I \in SUBSET batch :
        /\ \A e \in I : loadCalls[e] < MaxLoads
        /\ LET l == HandleEntries(
                      [img |-> img, fetches |-> fetches, loadCalls |-> loadCalls,
                       observed |-> observed,
                       loadedObserved |-> loadedObserved], 1, I, supportsWebP)
           IN  /\ img' = l.img
               /\ fetches' = l.fetches
               /\ loadCalls' = l.loadCalls
               /\ observed' = l.observed
               /\ loadedObserved' = l.loadedObserved
               /\ multiBatch' = (multiBatch \/ Cardinality(I) > 1)
               /\ intersected' = intersected \cup I
    /\ UNCHANGED <<markup, inDoc, supportsWebP, initPc, observer, observeCalls,
                   placeholders, stylesAdded, faults, rescanned, probe>>
    /\ UNCHANGED toolVars

\* testImg.onload / testImg.onerror of tryLoadImage, and loadImage's resumption
TryLoadSettle ==
    \E e \in Elements :
    \E i \in DOMAIN fetches[e] :
    \E ok \in BOOLEAN :
        /\ fetches[e][i].kind = "test"
        /\ fetches[e][i].status = "pending"
        /\ LET f == fetches[e][i]
               l0 == [img |-> img,
                      fetches |-> [fetches EXCEPT ![e][i].status =
                                        IF ok THEN "ok" ELSE "fail"],
                      loadCalls |-> loadCalls, observed |-> observed,
                      loadedObserved |-> loadedObserved]
               l == AfterTryLoad(l0, e, f, ok)
           IN  /\ img' = l.img
               /\ fetches' = l.fetches
    /\ UNCHANGED <<markup, inDoc, supportsWebP, initPc, observer, observed,
                   loadCalls, observeCalls, placeholders, stylesAdded, faults,
                   rescanned, multiBatch, intersected, loadedObserved, probe>>
    /\ UNCHANGED toolVars

\* newImg.onload / newImg.onerror of setImageSrc
SwapSettle ==
    \E e \in Elements :
    \E i \in DOMAIN fetches[e] :
    \E ok \in BOOLEAN :
        /\ fetches[e][i].kind = "swap"
        /\ fetches[e][i].status = "pending"
        /\ fetches' = [fetches EXCEPT ![e][i].status = IF ok THEN "ok" ELSE "fail"]
        /\ img' = [img EXCEPT ![e] = IF ok THEN SwapOnload(@, fetches[e][i].url)
                                         ELSE SwapOnerror(@, fetches[e][i].url)]
    /\ UNCHANGED <<markup, inDoc, supportsWebP, initPc, observer, observed,
                   loadCalls, observeCalls, placeholders, stylesAdded, faults,
                   rescanned, multiBatch, intersected, loadedObserved, probe>>
    /\ UNCHANGED toolVars

Next ==
    \/ Construct
    \/ InitResume
    \/ ProcessNewImages
    \/ InsertImage
    \/ ObserverCallback
    \/ TryLoadSettle
    \/ SwapSettle

Spec == Init /\ [][Next]_vars


\* ------------------------------------------------------- path rewrite
\* The path rewrite on its own: convertToWebPPath applied to the PNG paths
\* of at most MaxDirs directory segments and a file name of at most MaxName
\* pieces, the last of which is the extension '.png'.
DirTokens == {"All-DrawingsCompressed/", "All-Drawings/", "other/"}
NameTokens == {"a", "b", ".png"}

SeqsUpTo(S, n) == UNION {[1..k -> S] : k \in 0..n}

PngPaths ==
    {d \o f : d \in SeqsUpTo(DirTokens, MaxDirs),
              f \in {g \in SeqsUpTo(NameTokens, MaxName) :
                        g # <<>> /\ g[Len(g)] = ".png"}}

\* the page holds no image and no loader has been constructed
NoPage ==
    /\ markup = [e \in Elements |-> <<"icons/", "a", ".svg">>]
    /\ inDoc = [e \in Elements |-> FALSE]
    /\ img = [e \in Elements |-> FreshImg(markup[e])]
    /\ supportsWebP = FALSE
    /\ initPc = "unconstructed"
    /\ observer = "null"
    /\ observed = {}
    /\ fetches = [e \in Elements |-> <<>>]
    /\ loadCalls = [e \in Elements |-> 0]
    /\ observeCalls = [e \in Elements |-> 0]
    /\ placeholders = [e \in Elements |-> 0]
    /\ stylesAdded = FALSE
    /\ faults = {}
    /\ rescanned = FALSE
    /\ multiBatch = FALSE
    /\ intersected = {}
    /\ loadedObserved = {}
    /\ probe = ProbePending

InitPath ==
    /\ NoPage
    /\ conv = ConvIdle
    /\ \E p \in PngPaths : rewrite = [pc |-> "input", in |-> p, out |-> None]

\* one call convertToWebPPath(rewrite.in)
RewritePath ==
    /\ rewrite.pc = "input"
    /\ rewrite' = [rewrite EXCEPT !.pc = "done", !.out = convertToWebPPath(rewrite.in)]
    /\ UNCHANGED <<loaderVars, conv>>

NextPath == RewritePath

SpecPath == InitPath /\ [][NextPath]_vars

\* ---------------------------------------------------- batch converter
COMPRESSED_DIR == "All-DrawingsCompressed/"
WEBP_DIR == "All-DrawingsWebP/"
FULL_SIZE_DIR == "All-Drawings/"
WEBP_FULL_DIR == "All-DrawingsWebPFull/"

\* the two convertDirectory calls of main(), in order
SourceDirs == <<COMPRESSED_DIR, FULL_SIZE_DIR>>
TargetDirs == <<WEBP_DIR, WEBP_FULL_DIR>>
DirIndex == DOMAIN SourceDirs

\* the file names a source directory may hold, in readdirSync order
FileNames == << <<"a", ".png">>, <<"b", ".PNG">>, <<"c", ".png", ".png">>, <<"d", ".jpg">> >>

RECURSIVE Listing(_, _)
Listing(S, i) ==
    IF i > Len(FileNames) THEN <<>>
    ELSE (IF i \in S THEN <<FileNames[i]>> ELSE <<>>) \o Listing(S, i + 1)

Listings ==
    {Listing(S, 1) : S \in {T \in SUBSET (1..Len(FileNames)) : Cardinality(T) <= MaxFiles}}

\* String.prototype.toLowerCase on the pieces of a file name
toLowerCase(tok) == IF tok = ".PNG" THEN ".png" ELSE tok

\* file.toLowerCase().endsWith('.png')
IsPngFile(file) == toLowerCase(file[Len(file)]) = ".png"

\* path.join(dir, file)
PathJoin(dir, file) == <<dir>> \o file

outputPath_SwapsExtension(targetDir, file) ==
    PathJoin(targetDir, [file EXCEPT ![Len(file)] = ".webp"])

\* path.join(targetDir, file.replace('.png', '.webp'))
outputPath(targetDir, file) ==
    PathJoin(targetDir, ReplaceFirst(file, ".png", ".webp"))

RECURSIVE convertDirectory(_, _)
RECURSIVE convertLoop(_)

\* the loop of convertDirectory from its head up to the next await, or
\* through the end of the directory into the next convertDirectory call
convertLoop(c) ==
    IF c.queue = <<>>
    THEN convertDirectory(
            [c EXCEPT !.reported = Append(@, [dir |-> c.dir,
                                              count |-> c.successCount,
                                              total |-> c.total])],
            c.dir + 1)
    ELSE LET file == Head(c.queue)
             job == [dir |-> c.dir, file |-> file,
                     in |-> PathJoin(SourceDirs[c.dir], file),
                     out |-> outputPath(TargetDirs[c.dir], file)]
         IN  [c EXCEPT !.pc = "awaiting",
                       !.queue = Tail(@),
                       !.inflight = @ \cup {job}]

\* main() from its k-th convertDirectory call on
convertDirectory(c, k) ==
    IF k > Len(SourceDirs) THEN [c EXCEPT !.pc = "done"]
    ELSE IF ~c.src[k].exists THEN convertDirectory(c, k + 1)
    ELSE IF c.tgt[k] = "uncreatable" THEN [c EXCEPT !.pc = "exit1"]
    ELSE LET pngFiles == SelectSeq(c.src[k].files, IsPngFile)
         IN  convertLoop(
                [c EXCEPT !.dir = k,
                          !.created = IF c.tgt[k] = "absent" THEN @ \cup {k} ELSE @,
                          !.queue = pngFiles,
                          !.total = Len(pngFiles),
                          !.successCount = 0])

convertImage_Throws(c, job, ok) ==
    IF ok
    THEN [c EXCEPT !.inflight = @ \ {job},
                   !.attempts = Append(@, [dir |-> job.dir, file |-> job.file,
                                           in |-> job.in, out |-> job.out,
                                           ok |-> TRUE]),
                   !.successCount = @ + 1]
    ELSE [c EXCEPT !.pc = "exit1",
                   !.inflight = @ \ {job},
                   !.attempts = Append(@, [dir |-> job.dir, file |-> job.file,
                                           in |-> job.in, out |-> job.out,
                                           ok |-> FALSE])]

\* convertImage settles: true, or the caught error and false; then
\* 'if (success) successCount++'
convertImage(c, job, ok) ==
    [c EXCEPT !.inflight = @ \ {job},
              !.attempts = Append(@, [dir |-> job.dir, file |-> job.file,
                                      in |-> job.in, out |-> job.out,
                                      ok |-> ok]),
              !.successCount = IF ok THEN @ + 1 ELSE @]

SourceStates ==
    {[exists |-> FALSE, files |-> <<>>]} \cup
    {[exists |-> TRUE, files |-> f] : f \in Listings}

TargetStates == {"absent", "present", "uncreatable"}

InitConverter ==
    /\ NoPage
    /\ rewrite = RewriteIdle
    /\ \E src \in [DirIndex -> SourceStates], tgt \in [DirIndex -> TargetStates] :
          conv = [pc |-> "ready", src |-> src, tgt |-> tgt, dir |-> 0,
                  queue |-> <<>>, total |-> 0, successCount |-> 0,
                  inflight |-> {}, attempts |-> <<>>, reported |-> <<>>,
                  created |-> {}]

\* node convert-to-webp.js: main() up to its first pending conversion
ConvMain ==
    /\ conv.pc = "ready"
    /\ conv' = convertDirectory(conv, 1)
    /\ UNCHANGED <<loaderVars, rewrite>>

\* a pending sharp conversion settles and the loop resumes
ConvSettle ==
    /\ conv.pc = "awaiting"
    /\ \E job \in conv.inflight, ok \in BOOLEAN :
          LET c == convertImage(conv, job, ok)
          IN  conv' = IF c.pc = "awaiting" THEN convertLoop(c) ELSE c
    /\ UNCHANGED <<loaderVars, rewrite>>

NextConverter == ConvMain \/ ConvSettle

SpecConverter == InitConverter /\ [][NextConverter]_vars

\* --------------------------------------------------------------- phases
hasClass(e, c) == c \in img[e].classList

\* every fetch issued for e has settled
Settled(e) == \A i \in DOMAIN fetches[e] : fetches[e][i].status # "pending"

\* the probe has resolved (init has resumed past its await)
ProbeResolved == initPc \in {"done", "rejected"}

\* the phase of the data model, read off the element
Phase(im, calls) ==
    IF "lazy-error" \in im.classList THEN "error"
    ELSE IF "lazy-loaded" \in im.classList THEN "loaded"
    ELSE IF calls > 0 THEN "loading"
    ELSE IF im.processed THEN "placeholder"
    ELSE "unregistered"

\* ---------------------------------------------------------------- claims

\* C1: under any sequence of initialization, re-scans and visibility batches
\* (batches with several intersecting entries included), loadImage is invoked
\* at most once for every element.
C1_LoadAtMostOnce == \A e \in Elements : loadCalls[e] <= 1

\* C1 witness: a batch carried two intersecting entries and two elements have
\* each been handed to loadImage.
C1_Witness ==
    /\ multiBatch
    /\ Cardinality({e \in Elements : loadCalls[e] = 1}) >= 2

\* C2: an element whose visibility trigger has fired and whose fetches have all
\* settled carries exactly one of lazy-loaded / lazy-error and no lazy-loading.
C2_OneTerminalPhase ==
    \A e \in Elements :
        (img[e].processed /\ loadCalls[e] >= 1 /\ Settled(e)) =>
            /\ hasClass(e, "lazy-loaded") # hasClass(e, "lazy-error")
            /\ ~hasClass(e, "lazy-loading")

\* C2 witness: one element settled in loaded and another settled in error.
C2_Witness ==
    \E a, b \in Elements :
        /\ loadCalls[a] = 1 /\ Settled(a) /\ hasClass(a, "lazy-loaded")
        /\ loadCalls[b] = 1 /\ Settled(b) /\ hasClass(b, "lazy-error")


\* C3: when the WebP test fetch of an element fails, the original is attempted
\* next; if the original loads the element ends loaded with src = its original
\* source, and it is in error only if the original failed as well.
C3_FallbackAfterWebPFailure ==
    \A e \in Elements :
    \A i \in DOMAIN fetches[e] :
        (fetches[e][i].kind = "test" /\ fetches[e][i].status = "fail") =>
            /\ supportsWebP
            /\ i < Len(fetches[e])
            /\ fetches[e][i + 1].kind = "swap"
            /\ fetches[e][i + 1].url = markup[e]
            /\ fetches[e][i + 1].status = "ok" =>
                    /\ hasClass(e, "lazy-loaded")
                    /\ ~hasClass(e, "lazy-error")
                    /\ img[e].src = markup[e]
            /\ hasClass(e, "lazy-error") => fetches[e][i + 1].status = "fail"

\* C3 witness: the WebP test failed, the original loaded, the element shows
\* its original source.
C3_Witness ==
    \E e \in Elements :
        /\ Len(fetches[e]) = 2
        /\ fetches[e][1].kind = "test" /\ fetches[e][1].status = "fail"
        /\ fetches[e][2].status = "ok"
        /\ hasClass(e, "lazy-loaded")
        /\ img[e].src = markup[e]

\* C4: an element is in the error state only after a fetch of its original
\* source has failed.
C4_ErrorOnlyAfterOriginalFailed ==
    \A e \in Elements :
        hasClass(e, "lazy-error") =>
            \E i \in DOMAIN fetches[e] :
                /\ fetches[e][i].url = img[e].originalSrc
                /\ fetches[e][i].status = "fail"

\* C5: with WebP supported and a preferred source present, a successful WebP
\* test fetch is followed by the swap to the preferred source (never to the
\* original); when that pre-load succeeds too the element ends loaded with
\* src = preferred source, which is neither the original nor the placeholder.
C5_PreferredWhenWebPLoads ==
    \A e \in Elements :
    \A i \in DOMAIN fetches[e] :
        (fetches[e][i].kind = "test" /\ fetches[e][i].status = "ok") =>
            /\ supportsWebP
            /\ img[e].webpSrc = convertToWebPPath(markup[e])
            /\ i < Len(fetches[e])
            /\ fetches[e][i + 1].kind = "swap"
            /\ fetches[e][i + 1].url = img[e].webpSrc
            /\ hasClass(e, "lazy-loaded") => img[e].src = img[e].webpSrc
            /\ fetches[e][i + 1].status = "ok" =>
                    /\ hasClass(e, "lazy-loaded")
                    /\ ~hasClass(e, "lazy-error")
                    /\ img[e].src = img[e].webpSrc
                    /\ img[e].src # markup[e]
                    /\ img[e].src # Placeholder

\* C5 witness: both fetches of the preferred source succeeded and the element
\* shows the rewritten path.
C5_Witness ==
    \E e \in Elements :
        /\ supportsWebP
        /\ Len(fetches[e]) = 2
        /\ fetches[e][1].kind = "test" /\ fetches[e][1].status = "ok"
        /\ fetches[e][2].status = "ok"
        /\ hasClass(e, "lazy-loaded")
        /\ img[e].src = <<"All-DrawingsWebP/", "a", ".webp">>

\* C6: once the probe has resolved false, no element carries a data-webp-src,
\* no fetch of a .webp URL (and no test fetch) was ever issued, and every
\* loaded element shows its original source.
C6_NoWebPWhenUnsupported ==
    (ProbeResolved /\ ~supportsWebP) =>
        \A e \in Elements :
            /\ img[e].webpSrc = None
            /\ \A i \in DOMAIN fetches[e] :
                    /\ fetches[e][i].kind # "test"
                    /\ ~Includes(fetches[e][i].url, ".webp")
            /\ hasClass(e, "lazy-loaded") => img[e].src = markup[e]

\* C6 witness: the probe resolved false and a PNG element has been loaded from
\* its original path.
C6_Witness ==
    /\ ProbeResolved /\ ~supportsWebP
    /\ \E e \in Elements :
        /\ Includes(markup[e], ".png")
        /\ hasClass(e, "lazy-loaded")
        /\ img[e].src = markup[e]


\* C7: no element is registered (placeholder installed, marked processed)
\* while the probe is unresolved, and every registered PNG element's
\* data-webp-src decision agrees with the probe's resolved result.
C7_ProbeBeforeProcessing ==
    \A e \in Elements :
        img[e].processed =>
            /\ ProbeResolved
            /\ Includes(markup[e], ".png") => (supportsWebP <=> img[e].webpSrc # None)

\* C8: however often discovery runs, a registered element keeps the source
\* captured at its first registration as data-original-src (never the
\* placeholder), has had exactly one placeholder installed, has been observed
\* at most once and is not observed again after its hand-off to the loader.
C8_DiscoveryIdempotent ==
    \A e \in Elements :
        img[e].processed =>
            /\ img[e].originalSrc = markup[e]
            /\ img[e].originalSrc # Placeholder
            /\ placeholders[e] = 1
            /\ observeCalls[e] <= 1
            /\ loadCalls[e] >= 1 => e \notin observed

\* C8 witness: a discovery call has run over an already registered element,
\* which has meanwhile been handed to the loader.
C8_Witness ==
    /\ rescanned
    /\ \E e \in Elements :
        /\ img[e].processed
        /\ observeCalls[e] = 1
        /\ loadCalls[e] = 1

\* C9: every step moves each element's phase along unregistered -> placeholder
\* -> loading -> (loaded | error) or leaves it, and a step taken while an
\* element is loaded or error changes neither its src, classes and metadata
\* nor its fetches, and neither loads nor observes it again.
C9_PhaseMonotonic ==
    [][LET PhaseStep(p, q) ==
                \/ p = q
                \/ <<p, q>> \in { <<"unregistered", "placeholder">>,
                                 <<"placeholder", "loading">>,
                                 <<"loading", "loaded">>,
                                 <<"loading", "error">> }
       IN  \A e \in Elements :
            /\ PhaseStep(Phase(img[e], loadCalls[e]), Phase(img'[e], loadCalls'[e]))
            /\ Phase(img[e], loadCalls[e]) \in {"loaded", "error"} =>
                    /\ img'[e] = img[e]
                    /\ fetches'[e] = fetches[e]
                    /\ loadCalls'[e] = loadCalls[e]
                    /\ e \notin observed']_vars

\* C9 witness: one element is loaded, another is in error, and discovery has
\* run again over registered elements.
C9_Witness ==
    /\ rescanned
    /\ \E a, b \in Elements :
        /\ Phase(img[a], loadCalls[a]) = "loaded"
        /\ Phase(img[b], loadCalls[b]) = "error"

\* C10: a placeholder-generation failure never raises out of discovery and
\* never keeps initialization from completing (style block included).
C10_PlaceholderFailureNonFatal ==
    /\ "placeholder" \notin faults
    /\ ProbeResolved => (initPc = "done" /\ stylesAdded)


\* C12: a registered element shows either the placeholder or a source
\* (original or preferred) whose pre-load completed successfully; while a
\* pre-load is pending or after it failed the src is still the placeholder.
C12_SrcOnlyAfterPreload ==
    \A e \in Elements :
        img[e].processed =>
            /\ \/ img[e].src = Placeholder
               \/ /\ img[e].src \in {img[e].originalSrc, img[e].webpSrc}
                  /\ \E i \in DOMAIN fetches[e] :
                        /\ fetches[e][i].kind = "swap"
                        /\ fetches[e][i].url = img[e].src
                        /\ fetches[e][i].status = "ok"
            /\ \A i \in DOMAIN fetches[e] :
                    (fetches[e][i].kind = "swap" /\ fetches[e][i].status # "ok")
                        => img[e].src = Placeholder

\* C12 witness: one element's pre-load failed and it still shows the
\* placeholder, another's succeeded and it shows the pre-loaded source.
C12_Witness ==
    \E a, b \in Elements :
        /\ \E i \in DOMAIN fetches[a] :
              fetches[a][i].kind = "swap" /\ fetches[a][i].status = "fail"
        /\ img[a].src = Placeholder
        /\ \E i \in DOMAIN fetches[b] :
              /\ fetches[b][i].kind = "swap" /\ fetches[b][i].status = "ok"
              /\ img[b].src = fetches[b][i].url

\* C13: a fetch of an element's original or preferred source (and its
\* hand-off to loadImage) happens only after the element was registered
\* (original captured, placeholder installed, observed) and a batch reported
\* it intersecting; nothing else is ever fetched for it.
C13_FetchDeferredUntilVisible ==
    \A e \in Elements :
        (fetches[e] # <<>> \/ loadCalls[e] > 0) =>
            /\ e \in intersected
            /\ img[e].processed
            /\ img[e].originalSrc = markup[e]
            /\ placeholders[e] >= 1
            /\ observeCalls[e] >= 1
            /\ \A i \in DOMAIN fetches[e] :
                    fetches[e][i].url \in {img[e].originalSrc, img[e].webpSrc}

\* C13 witness: one element is being fetched after its batch, while another
\* registered element, not yet reported intersecting, has no fetch.
C13_Witness ==
    \E a, b \in Elements :
        /\ fetches[a] # <<>> /\ a \in intersected
        /\ b \in observed /\ b \notin intersected
        /\ img[b].src = Placeholder /\ fetches[b] = <<>>

\* C14 (as claimed): every observed element is in phase placeholder and the
\* callback removes a target from observation before loadImage starts on it.
C14_UnobservedBeforeLoad ==
    /\ \A e \in observed : Phase(img[e], loadCalls[e]) = "placeholder"
    /\ loadedObserved = {}

\* C14 (amended): between handler runs every observed element is in phase
\* placeholder with no fetch issued, and no element in loading, loaded or
\* error is observed; the callback starts loadImage on a target that is still
\* observed and unobserves it in the same run.
C14_ObservedOnlyInPlaceholder ==
    /\ \A e \in observed :
        /\ Phase(img[e], loadCalls[e]) = "placeholder"
        /\ fetches[e] = <<>>
    /\ \A e \in Elements :
        Phase(img[e], loadCalls[e]) \in {"loading", "loaded", "error"} =>
            /\ e \notin observed
            /\ e \in loadedObserved

\* C14 witness: one element is still observed behind its placeholder while
\* another has been handed to the loader and is no longer observed.
C14_Witness ==
    \E a, b \in Elements :
        /\ a \in observed
        /\ loadCalls[b] = 1 /\ b \notin observed /\ b \in loadedObserved

\* C15: per element at most two fetches are ever issued, at most one is
\* pending, a later fetch starts only after the earlier one settled, a test
\* fetch (of the preferred source) can only be the first, the original source
\* is fetched at most once and last, and a failed URL is never fetched again.
C15_AtMostTwoFetches ==
    \A e \in Elements :
        /\ Len(fetches[e]) <= 2
        /\ Cardinality({i \in DOMAIN fetches[e] : fetches[e][i].status = "pending"}) <= 1
        /\ Cardinality({i \in DOMAIN fetches[e] : fetches[e][i].url = markup[e]}) <= 1
        /\ \A i \in DOMAIN fetches[e] :
            /\ i < Len(fetches[e]) => fetches[e][i].status # "pending"
            /\ fetches[e][i].kind = "test" =>
                    (i = 1 /\ fetches[e][i].url = img[e].webpSrc
                           /\ img[e].webpSrc # None)
            /\ fetches[e][i].url = markup[e] => i = Len(fetches[e])
            /\ \A j \in DOMAIN fetches[e] :
                    (i < j /\ fetches[e][i].status = "fail")
                        => fetches[e][j].url # fetches[e][i].url

\* C15 witness: one element has used both attempts (preferred failed, fallback
\* settled) while another has its second attempt still pending.
C15_Witness ==
    \E a, b \in Elements :
        /\ Len(fetches[a]) = 2 /\ Settled(a) /\ fetches[a][1].status = "fail"
        /\ Len(fetches[b]) = 2 /\ fetches[b][2].status = "pending"

\* C16: supportsWebP is false until the probe settles; the probe settles once,
\* and the value stored is true exactly when the sample loaded with height 2
\* (false on an error event and on any other height); afterwards neither the
\* outcome nor supportsWebP changes.
C16_ProbeResolvesOnce ==
    [][LET agrees(p, sw, pc) ==
                /\ (pc \in {"done", "rejected"}) <=> (p # ProbePending)
                /\ sw <=> (p.ev = "load" /\ p.h = 2)
       IN  /\ agrees(probe, supportsWebP, initPc)
           /\ agrees(probe', supportsWebP', initPc')
           /\ probe # ProbePending =>
                    (probe' = probe /\ supportsWebP' = supportsWebP)]_vars

\* C16 witness: the sample loaded with a wrong height and the loader works on
\* with WebP unsupported.
C16_Witness ==
    /\ probe = [ev |-> "load", h |-> 1]
    /\ ~supportsWebP
    /\ \E e \in Elements : loadCalls[e] = 1

\* C17: an element whose source is an SVG is never touched: src, classes and
\* data attributes stay as in the markup, it is never observed and nothing is
\* fetched for it.
C17_VectorUntouched ==
    \A e \in Elements :
        Includes(markup[e], ".svg") =>
            /\ img[e] = FreshImg(markup[e])
            /\ e \notin observed
            /\ observeCalls[e] = 0
            /\ placeholders[e] = 0
            /\ loadCalls[e] = 0
            /\ fetches[e] = <<>>

\* C17 witness: discovery has run repeatedly over a document holding an SVG
\* and a raster image, and the raster image is registered.
C17_Witness ==
    /\ rescanned
    /\ \E a, b \in Elements :
        /\ inDoc[a] /\ Includes(markup[a], ".svg")
        /\ img[b].processed

\* C18: an element marked processed and showing the placeholder is observed
\* or has been handed to the loader, and no discovery call has ended in an
\* uncaught exception.
C18_RegistrationAllOrNothing ==
    /\ \A e \in Elements :
        (img[e].processed /\ img[e].src = Placeholder) =>
            (e \in observed \/ loadCalls[e] >= 1)
    /\ faults = {}


\* C11: convertToWebPPath maps every PNG path under 'All-DrawingsCompressed/'
\* to the same path under 'All-DrawingsWebP/', otherwise every path under
\* 'All-Drawings/' to the same path under 'All-DrawingsWebPFull/', any other
\* path to itself, in each case with the file extension (the last piece)
\* swapped from .png to .webp and everything else unchanged.
C11_RewriteSwapsExtension ==
    rewrite.pc = "done" =>
        LET in == rewrite.in
            n == Len(in)
            moved ==
                IF Includes(in, "All-DrawingsCompressed/")
                THEN ReplaceFirst(in, "All-DrawingsCompressed/", "All-DrawingsWebP/")
                ELSE IF Includes(in, "All-Drawings/")
                THEN ReplaceFirst(in, "All-Drawings/", "All-DrawingsWebPFull/")
                ELSE in
        IN  rewrite.out = [moved EXCEPT ![n] = ".webp"]


\* C19: every path the converter writes is the path convertToWebPPath
\* computes for the source path of the same file, for both directory pairs
\* and every file name the converter selects as a PNG, names with an
\* upper-case extension or a repeated '.png' included.
C19_ConverterMatchesRewrite ==
    conv.pc # "idle" =>
        /\ \A job \in conv.inflight :
              /\ IsPngFile(job.file)
              /\ job.in = PathJoin(SourceDirs[job.dir], job.file)
              /\ job.out = convertToWebPPath(job.in)
        /\ \A i \in 1..Len(conv.attempts) :
              LET a == conv.attempts[i]
              IN  /\ IsPngFile(a.file)
                  /\ a.in = PathJoin(SourceDirs[a.dir], a.file)
                  /\ a.out = convertToWebPPath(a.in)

C19_Witness ==
    /\ conv.pc = "done"
    /\ \E i, j \in 1..Len(conv.attempts) :
          /\ conv.attempts[i].file = <<"b", ".PNG">>
          /\ conv.attempts[i].ok
          /\ conv.attempts[j].file = <<"c", ".png", ".png">>
          /\ conv.attempts[j].dir = 2
          /\ conv.attempts[j].ok

\* C20: the converter handles one file at a time; a failed conversion stops
\* neither the rest of its directory nor the second directory; the count
\* reported for a directory is the number of its files that converted; a
\* missing source directory is skipped, its target is not created and the
\* run does not fail because of it.
C20_FailuresIsolated ==
    conv.pc # "idle" =>
        LET pngOf(k) == SelectSeq(conv.src[k].files, IsPngFile)
            expectedFor(k) ==
                IF conv.src[k].exists
                THEN [i \in 1..Len(pngOf(k)) |-> <<k, pngOf(k)[i]>>]
                ELSE <<>>
            expected == expectedFor(1) \o expectedFor(2)
            attempted == [i \in 1..Len(conv.attempts) |->
                            <<conv.attempts[i].dir, conv.attempts[i].file>>]
            succeeded(k) == Cardinality({i \in 1..Len(conv.attempts) :
                               conv.attempts[i].dir = k /\ conv.attempts[i].ok})
            n == Len(attempted)
        IN  /\ Cardinality(conv.inflight) <= 1
            /\ conv.pc = "awaiting" => conv.inflight # {}
            /\ n <= Len(expected)
            /\ attempted = SubSeq(expected, 1, n)
            /\ \A job \in conv.inflight :
                  n < Len(expected) /\ <<job.dir, job.file>> = expected[n + 1]
            /\ conv.pc = "done" =>
                  /\ attempted = expected
                  /\ [i \in 1..Len(conv.reported) |-> conv.reported[i].dir]
                       = SelectSeq(<<1, 2>>, LAMBDA k : conv.src[k].exists)
            /\ \A i \in 1..Len(conv.reported) :
                  /\ conv.reported[i].count = succeeded(conv.reported[i].dir)
                  /\ conv.reported[i].total = Len(pngOf(conv.reported[i].dir))
            /\ \A k \in DirIndex :
                  ~conv.src[k].exists =>
                      /\ k \notin conv.created
                      /\ \A i \in 1..Len(conv.reported) : conv.reported[i].dir # k
            /\ conv.pc = "exit1" =>
                  \E k \in DirIndex : conv.src[k].exists /\ conv.tgt[k] = "uncreatable"

C20_Witness ==
    /\ conv.pc = "done"
    /\ \E i, j, m \in 1..Len(conv.attempts) :
          /\ i < j
          /\ conv.attempts[i].dir = 1 /\ ~conv.attempts[i].ok
          /\ conv.attempts[j].dir = 1 /\ conv.attempts[j].ok
          /\ conv.attempts[m].dir = 2 /\ conv.attempts[m].ok
    /\ conv.reported[1] = [dir |-> 1, count |-> 1, total |-> 2]

====
